---- MODULE Spec2Model ----
(***************************************************************************)
(* html-webpack-tags-plugin (src/index.js) as a state machine.             *)
(*                                                                         *)
(* JavaScript values are tagged records: [t |-> "bool"|"str"|"num"|"fn",   *)
(* v |-> ...]; an object is a record with t |-> "obj" plus its own keys,   *)
(* an array is [t |-> "arr", v |-> <<...>>].  A key that is absent from    *)
(* DOMAIN is undefined.  A string is a sequence of one-character strings,  *)
(* so that suffix tests, joins and separator rewriting are computed.       *)
(***************************************************************************)
EXTENDS Integers, Sequences, FiniteSets, TLC

VARIABLES
    fs,           \* directory listings seen by glob.sync: cwd -> sorted names
    rawOptions,   \* the options object handed to the constructor
    plugin,       \* constructor outcome: [ok, val |-> this.options] or [ok, error]
    compilerOptions, \* compiler.options: a record that may hold externals
    compiler0,    \* compiler.options as they were before apply()
    pc,           \* position in the plugin's lifecycle
    doc,          \* htmlPluginData of the document in progress
    doc0,         \* the same document as the host passed it to the handler
    cb,           \* TRUE when the host passed a callback to the running handler
    regs,         \* assetPromises: one record per registration started
    settled,      \* indices of regs in the order they settled
    allState,     \* state of Promise.all(assetPromises)
    hostGot,      \* what the host has received from the handlers, in order
    tagIn,        \* getTagPath inputs of the path resolver runs
    tagOut        \* getTagPath result

vars == <<fs, rawOptions, plugin, compilerOptions, compiler0, pc, doc, doc0, cb, regs, settled,
          allState, hostGot, tagIn, tagOut>>

(***************************************************************************)
(* Values                                                                  *)
(***************************************************************************)
Bool(b) == [t |-> "bool", v |-> b]
Str(s) == [t |-> "str", v |-> s]
Num(n) == [t |-> "num", v |-> n]
Fn(f) == [t |-> "fn", v |-> f]
Arr(s) == [t |-> "arr", v |-> s]
EmptyObj == [t |-> "obj"]

Keys(o) == DOMAIN o \ {"t"}

isDefined(o, k) == k \in DOMAIN o
isObject(v) == v.t = "obj"
isBoolean(v) == v.t = "bool"
isNumber(v) == v.t = "num"
isString(v) == v.t = "str"
isArray(v) == v.t = "arr"
isFunction(v) == v.t = "fn"
Truthy(v) == \/ v.t = "bool" /\ v.v
             \/ v.t = "str" /\ v.v # <<>>
             \/ v.t = "num" /\ v.v # 0
             \/ v.t \in {"obj", "arr", "fn"}

\* a function either returns a value or throws (assert fails)
Ok(x) == [ok |-> TRUE, val |-> x]
Err(m) == [ok |-> FALSE, error |-> m]

\* the rest of a function body runs only when the call before it returned
Bind(r, Rest(_)) == IF r.ok THEN Rest(r.val) ELSE r

\* forEach over calls that may throw: the first throw, else every result
FirstBad(results) == CHOOSE i \in DOMAIN results :
                        ~results[i].ok /\ \A j \in 1..(i - 1) : results[j].ok
AllOf(results) ==
    IF \E i \in DOMAIN results : ~results[i].ok THEN results[FirstBad(results)]
    ELSE Ok([i \in DOMAIN results |-> results[i].val])

(***************************************************************************)
(* Strings                                                                 *)
(***************************************************************************)
s_a_js == <<"a", ".", "j", "s">>
s_b_js == <<"b", ".", "j", "s">>
s_a_css == <<"a", ".", "c", "s", "s">>
s_b_css == <<"b", ".", "c", "s", "s">>
s_a_mjs == <<"a", ".", "m", "j", "s">>
s_ajs == <<"a", "j", "s">>
s_a_JS == <<"a", ".", "J", "S">>
s_js == <<"j", "s">>
s_dot_js == <<".", "j", "s">>
s_dot_css == <<".", "c", "s", "s">>
s_dot_mjs == <<".", "m", "j", "s">>
s_map == <<"a", ".", "m", "a", "p">>
s_map2 == <<"b", ".", "m", "a", "p">>
s_win == <<"d", "\\", "a", ".", "j", "s">>
s_up == <<".", ".", "/", "a", ".", "j", "s">>
s_cdn == <<"/", "c", "d", "n", "/">>
s_rel == <<"p", "u", "b">>
s_empty == <<>>
s_hash == <<"h", "1">>
s_fixed == <<"/", "s", "/">>
s_index == <<"i", ".", "h", "t", "m", "l">>
s_other == <<"o", ".", "h", "t", "m", "l">>
s_anyHtml == <<"*", ".", "h", "t", "m", "l">>
s_libs == <<"/", "l", "i", "b", "s">>
s_none == <<"/", "n", "o">>
s_vendor == <<"v">>
s_globJs == <<"*", ".", "j", "s">>
s_m_css == <<"m", ".", "c", "s", "s">>
s_m_js == <<"m", ".", "j", "s">>
s_n_js == <<"n", ".", "j", "s">>
s_jq == <<"j", "q">>
s_dollar == <<"$">>
s_JQ == <<"J", "Q">>
s_react == <<"r">>
s_React == <<"R">>

RECURSIVE Replace(_, _, _)
Replace(s, from, to) ==
    IF s = <<>> THEN <<>>
    ELSE <<IF Head(s) = from THEN to ELSE Head(s)>> \o Replace(Tail(s), from, to)

\* slash(path): every backslash becomes a forward slash
slash(s) == Replace(s, "\\", "/")

EndsWith(s, suffix) ==
    /\ Len(suffix) <= Len(s)
    /\ SubSeq(s, Len(s) - Len(suffix) + 1, Len(s)) = suffix

\* the segments of s between "/" separators (s.split("/"))
RECURSIVE Split(_, _)
Split(s, cur) ==
    IF s = <<>> THEN <<cur>>
    ELSE IF Head(s) = "/" THEN <<cur>> \o Split(Tail(s), <<>>)
    ELSE Split(Tail(s), Append(cur, Head(s)))

RECURSIVE JoinSegs(_)
JoinSegs(segs) ==
    IF segs = <<>> THEN <<>>
    ELSE IF Len(segs) = 1 THEN segs[1]
    ELSE segs[1] \o <<"/">> \o JoinSegs(Tail(segs))

\* node posix normalizeString: drop "" and ".", resolve ".."
RECURSIVE NormalizeSegs(_, _, _)
NormalizeSegs(segs, res, allowAboveRoot) ==
    IF segs = <<>> THEN res
    ELSE LET seg == Head(segs)
             rest == Tail(segs)
         IN IF seg = <<>> \/ seg = <<".">> THEN NormalizeSegs(rest, res, allowAboveRoot)
            ELSE IF seg = <<".", ".">>
                 THEN IF res # <<>> /\ res[Len(res)] # <<".", ".">>
                      THEN NormalizeSegs(rest, SubSeq(res, 1, Len(res) - 1), allowAboveRoot)
                      ELSE IF allowAboveRoot
                           THEN NormalizeSegs(rest, Append(res, seg), allowAboveRoot)
                           ELSE NormalizeSegs(rest, res, allowAboveRoot)
            ELSE NormalizeSegs(rest, Append(res, seg), allowAboveRoot)

\* node posix path.normalize
PathNormalize(p) ==
    IF p = <<>> THEN <<".">>
    ELSE LET isAbsolute == p[1] = "/"
             trailingSeparator == p[Len(p)] = "/"
             body == JoinSegs(NormalizeSegs(Split(p, <<>>), <<>>, ~isAbsolute))
         IN IF body = <<>>
            THEN IF isAbsolute THEN <<"/">>
                 ELSE IF trailingSeparator THEN <<".", "/">> ELSE <<".">>
            ELSE (IF isAbsolute THEN <<"/">> ELSE <<>>) \o body
                 \o (IF trailingSeparator THEN <<"/">> ELSE <<>>)

\* node posix path.join(a, b): empty arguments are skipped, the rest joined
\* with "/" and normalized
PathJoin(a, b) ==
    LET joined == IF a = <<>> THEN b
                  ELSE IF b = <<>> THEN a
                  ELSE a \o <<"/">> \o b
    IN IF joined = <<>> THEN <<".">> ELSE PathNormalize(joined)

\* minimatch(name, pattern) for patterns of literal characters and "*"
\* ("*" matches any run of characters other than "/")
RECURSIVE Minimatch(_, _)
Minimatch(name, pattern) ==
    IF pattern = <<>> THEN name = <<>>
    ELSE IF Head(pattern) = "*"
         THEN \/ Minimatch(name, Tail(pattern))
              \/ name # <<>> /\ Head(name) # "/" /\ Minimatch(Tail(name), pattern)
    ELSE name # <<>> /\ Head(name) = Head(pattern) /\ Minimatch(Tail(name), Tail(pattern))

\* glob.sync(assetGlob, { cwd: globPath }): the names of the directory that
\* match, in the directory's (sorted) order; a missing directory has none
GlobSync(assetGlob, globPath) ==
    IF globPath \in DOMAIN fs
    THEN SelectSeq(fs[globPath], LAMBDA f : Minimatch(f, assetGlob))
    ELSE <<>>

\* JavaScript Array.prototype.slice(start, end)
JsSlice(s, start, end) ==
    LET n == Len(s)
        from == IF start < 0 THEN (IF n + start < 0 THEN 0 ELSE n + start)
                ELSE (IF start > n THEN n ELSE start)
        to == IF end < 0 THEN (IF n + end < 0 THEN 0 ELSE n + end)
              ELSE (IF end > n THEN n ELSE end)
    IN SubSeq(s, from + 1, to)

RECURSIVE ConcatAll(_)
ConcatAll(ss) == IF ss = <<>> THEN <<>> ELSE Head(ss) \o ConcatAll(Tail(ss))

MapSeq(s, Op(_)) == [i \in 1..Len(s) |-> Op(s[i])]

(***************************************************************************)
(* Functions the configuration can hold.  A function value is Fn(name);    *)
(* the closure processShortcuts builds is a function value that carries    *)
(* the transform and the shorthand string it closes over.                  *)
(***************************************************************************)
\* DEFAULT_OPTIONS.addHash and DEFAULT_OPTIONS.addPublicPath, and the
\* functions a configuration supplies
CallNamed(name, a, b) ==
    CASE name = "defaultAddHash" -> Str(a \o <<"?">> \o b)
      [] name = "defaultAddPublicPath" -> Str(PathJoin(b, a))
      [] name = "userPrefix" -> Str(b \o a)
      [] name = "userSuffix" -> Str(a \o <<"#">> \o b)
      [] name = "userNumber" -> Num(0)

Closure(add, shortcut) ==
    [t |-> "fn", v |-> "closure", add |-> add.v, shortcut |-> shortcut]

\* f(a, b)
CallFn(f, a, b) ==
    IF f.v = "closure" THEN CallNamed(f.add, a, f.shortcut)
    ELSE CallNamed(f.v, a, b)

isFunctionReturningString(v) == isFunction(v) /\ isString(CallFn(v, <<>>, <<>>))

isValidAttributeValue(v) == isString(v) \/ isBoolean(v) \/ isNumber(v)

isArrayOfString(v) == isArray(v) /\ \A i \in DOMAIN v.v : isString(v.v[i])

ASSET_TYPE_CSS == <<"c", "s", "s">>
ASSET_TYPE_JS == <<"j", "s">>
ASSET_TYPES == {ASSET_TYPE_CSS, ASSET_TYPE_JS}

isType(type) == isString(type) /\ type.v \in ASSET_TYPES
isTypeCss(type) == type = Str(ASSET_TYPE_CSS)

DEFAULT_OPTIONS ==
    [append |-> Bool(TRUE),
     useHash |-> Bool(FALSE),
     addHash |-> Fn("defaultAddHash"),
     usePublicPath |-> Bool(TRUE),
     addPublicPath |-> Fn("defaultAddPublicPath"),
     jsExtensions |-> <<Str(s_dot_js)>>,
     cssExtensions |-> <<Str(s_dot_css)>>,
     tags |-> <<>>,
     links |-> <<>>,
     scripts |-> <<>>]

(***************************************************************************)
(* Extension classifier                                                    *)
(***************************************************************************)
\* one alternative of the compiled pattern against the end of value: the
\* extension text is pattern source, so its "." stands for any character
\* (the extensions of this model hold no other pattern character)
AlternativeMatchesEnd(ext, value) ==
    /\ Len(ext) <= Len(value)
    /\ \A i \in 1..Len(ext) :
          ext[i] = "." \/ ext[i] = value[Len(value) - Len(ext) + i]

\* new RegExp(`.*(${extensions.join('|')})$`).test(value)
createExtensionsRegex(extensions, value) ==
    \/ extensions = <<>>
    \/ \E i \in DOMAIN extensions : AlternativeMatchesEnd(extensions[i].v, value)

getExtensions(options, optionExtensionName) ==
    IF ~isDefined(options, optionExtensionName) THEN Ok(DEFAULT_OPTIONS[optionExtensionName])
    ELSE LET e == options[optionExtensionName]
         IN IF isString(e) THEN Ok(<<e>>)
            ELSE IF ~isArray(e) THEN Err("extensions should be a string or array of strings")
            ELSE IF \E i \in DOMAIN e.v : ~isString(e.v[i])
                 THEN Err("extensions array should only contain strings")
            ELSE Ok(e.v)

getHasExtensions(options, optionExtensionName, value) ==
    createExtensionsRegex(getExtensions(options, optionExtensionName).val, value)

isAssetTypeCss(options, value) == getHasExtensions(options, "cssExtensions", value)
isAssetTypeJs(options, value) == getHasExtensions(options, "jsExtensions", value)

\* getAssetTypeCheckers fails when either extension list is malformed
getAssetTypeCheckers(options) ==
    Bind(getExtensions(options, "jsExtensions"),
         LAMBDA js : getExtensions(options, "cssExtensions"))

Without(o, ks) == [k \in DOMAIN o \ ks |-> o[k]]
With(o, key, val) == [k \in DOMAIN o \cup {key} |-> IF k = key THEN val ELSE o[k]]

\* the result of the loop body of splitLinkScriptTags for one tag:
\* [kind |-> "css"|"js", obj] or an error
splitOne(tagObject, options) ==
    IF isDefined(tagObject, "type")
    THEN IF ~isType(tagObject.type) THEN Err("type must be css or js")
         ELSE Ok([kind |-> IF isTypeCss(tagObject.type) THEN "css" ELSE "js",
                  obj |-> Without(tagObject, {"type"})])
    ELSE IF isAssetTypeCss(options, tagObject.path.v) THEN Ok([kind |-> "css", obj |-> tagObject])
    ELSE IF isAssetTypeJs(options, tagObject.path.v) THEN Ok([kind |-> "js", obj |-> tagObject])
    ELSE Err("could not determine asset type")

kindOnly(split, kind) ==
    MapSeq(SelectSeq(split, LAMBDA r : r.kind = kind), LAMBDA r : r.obj)

splitLinkScriptTags(tagObjects, options) ==
    Bind(getAssetTypeCheckers(options),
         LAMBDA checkers :
           Bind(AllOf([i \in DOMAIN tagObjects |-> splitOne(tagObjects[i], options)]),
                LAMBDA split : Ok([linkObjects |-> kindOnly(split, "css"),
                                   scriptObjects |-> kindOnly(split, "js")])))

(***************************************************************************)
(* Tag descriptor normalizer                                               *)
(***************************************************************************)
boolOrStringFn(v) == isBoolean(v) \/ isFunctionReturningString(v)

\* the glob branch entered only when both keys are defined
getTagObjects_bothKeys(tag) ==
    IF ~(isString(tag) \/ isObject(tag)) THEN Err("items must be an object or string")
    ELSE IF isString(tag) THEN Ok(<<[t |-> "obj", path |-> tag]>>)
    ELSE IF ~(isDefined(tag, "path") /\ isString(tag.path))
         THEN Err("object must have a string path property")
    ELSE IF isDefined(tag, "append") /\ ~isBoolean(tag.append)
         THEN Err("object append should be a boolean")
    ELSE IF isDefined(tag, "publicPath") /\ ~boolOrStringFn(tag.publicPath)
         THEN Err("object publicPath should be a boolean or function that returns a string")
    ELSE IF isDefined(tag, "hash") /\ ~boolOrStringFn(tag.hash)
         THEN Err("object hash should be a boolean or function that returns a string")
    ELSE IF isDefined(tag, "sourcePath") /\ ~isString(tag.sourcePath)
         THEN Err("object should have a string sourcePath property")
    ELSE IF isDefined(tag, "attributes") /\ ~isObject(tag.attributes)
         THEN Err("object should have an object attributes property")
    ELSE IF /\ isDefined(tag, "attributes")
            /\ \E a \in Keys(tag.attributes) : ~isValidAttributeValue(tag.attributes[a])
         THEN Err("object attribute values should be strings, booleans or numbers")
    ELSE IF isDefined(tag, "glob") /\ isDefined(tag, "globPath")
         THEN IF ~(isDefined(tag, "glob") /\ isString(tag.glob))
              THEN Err("object should have a string glob property")
              ELSE IF ~(isDefined(tag, "globPath") /\ isString(tag.globPath))
                   THEN Err("object should have a string globPath property")
              ELSE LET otherAssetProperties == Without(tag, {"glob", "globPath"})
                       globAssets == GlobSync(tag.glob.v, tag.globPath.v)
                       globAssetPaths ==
                           MapSeq(globAssets, LAMBDA g : slash(PathJoin(tag.path.v, g)))
                   IN IF Len(globAssetPaths) = 0 THEN Err("object glob found no files")
                      ELSE Ok(MapSeq(globAssetPaths,
                                     LAMBDA p : With(otherAssetProperties, "path", Str(p))))
    ELSE Ok(<<tag>>)

getTagObjects(tag) ==
    IF ~(isString(tag) \/ isObject(tag)) THEN Err("items must be an object or string")
    ELSE IF isString(tag) THEN Ok(<<[t |-> "obj", path |-> tag]>>)
    ELSE IF ~(isDefined(tag, "path") /\ isString(tag.path))
         THEN Err("object must have a string path property")
    ELSE IF isDefined(tag, "append") /\ ~isBoolean(tag.append)
         THEN Err("object append should be a boolean")
    ELSE IF isDefined(tag, "publicPath") /\ ~boolOrStringFn(tag.publicPath)
         THEN Err("object publicPath should be a boolean or function that returns a string")
    ELSE IF isDefined(tag, "hash") /\ ~boolOrStringFn(tag.hash)
         THEN Err("object hash should be a boolean or function that returns a string")
    ELSE IF isDefined(tag, "sourcePath") /\ ~isString(tag.sourcePath)
         THEN Err("object should have a string sourcePath property")
    ELSE IF isDefined(tag, "attributes") /\ ~isObject(tag.attributes)
         THEN Err("object should have an object attributes property")
    ELSE IF /\ isDefined(tag, "attributes")
            /\ \E a \in Keys(tag.attributes) : ~isValidAttributeValue(tag.attributes[a])
         THEN Err("object attribute values should be strings, booleans or numbers")
    ELSE IF isDefined(tag, "glob") \/ isDefined(tag, "globPath")
         THEN IF ~(isDefined(tag, "glob") /\ isString(tag.glob))
              THEN Err("object should have a string glob property")
              ELSE IF ~(isDefined(tag, "globPath") /\ isString(tag.globPath))
                   THEN Err("object should have a string globPath property")
              ELSE LET otherAssetProperties == Without(tag, {"glob", "globPath"})
                       globAssets == GlobSync(tag.glob.v, tag.globPath.v)
                       globAssetPaths ==
                           MapSeq(globAssets, LAMBDA g : slash(PathJoin(tag.path.v, g)))
                   IN IF Len(globAssetPaths) = 0 THEN Err("object glob found no files")
                      ELSE Ok(MapSeq(globAssetPaths,
                                     LAMBDA p : With(otherAssetProperties, "path", Str(p))))
    ELSE Ok(<<tag>>)

tagsArray(tags) ==
    Bind(AllOf([i \in DOMAIN tags.v |-> getTagObjects(tags.v[i])]),
         LAMBDA lists : Ok(ConcatAll(lists)))

getValidatedTagObjects(options, optionName) ==
    IF ~(isString(options[optionName]) \/ isObject(options[optionName])
         \/ isArray(options[optionName]))
    THEN Err("should be a string, object, or array")
    ELSE IF isArray(options[optionName]) THEN tagsArray(options[optionName])
    ELSE getTagObjects(options[optionName])

withAppendDefault(tag, append) ==
    IF ~isDefined(tag, "append") THEN With(tag, "append", append) ELSE tag

getAllTagObjects(options, append, optionName) ==
    Bind(getValidatedTagObjects(options, optionName),
         LAMBDA tagObjects : Ok(MapSeq(tagObjects, LAMBDA tag : withAppendDefault(tag, append))))

isStringAt(o, k) == isDefined(o, k) /\ isString(o[k])

validateExternal(external) ==
    IF ~isObject(external) THEN Err("external should be an object")
    ELSE IF ~(isStringAt(external, "packageName") \/ isStringAt(external, "variableName"))
         THEN Err("external should have a string packageName and variableName property")
    ELSE IF ~isStringAt(external, "packageName")
         THEN Err("external should have a string packageName property")
    ELSE IF ~isStringAt(external, "variableName")
         THEN Err("external should have a string variableName property")
    ELSE Ok(TRUE)

\* the external checked for its shape only, whatever tag carries it
validateOneExternal_anyTag(tagObject, isScript) ==
    IF isObject(tagObject) /\ isDefined(tagObject, "external")
    THEN validateExternal(tagObject.external)
    ELSE Ok(TRUE)

validateOneExternal(tagObject, isScript) ==
    IF isObject(tagObject) /\ isDefined(tagObject, "external")
    THEN IF isScript THEN validateExternal(tagObject.external)
         ELSE Err("external should not be used on non script tags")
    ELSE Ok(TRUE)

validateTagObjectExternals(tagObjects, isScript) ==
    AllOf([i \in DOMAIN tagObjects |-> validateOneExternal(tagObjects[i], isScript)])

(***************************************************************************)
(* Option aggregator                                                       *)
(***************************************************************************)
\* the shorthand branch of processShortcuts
\* a string shorthand that leaves the default transform to join the runtime
\* value
fromShortcut_runtimeJoin(shortcut, keyUse, keyAdd, add) ==
    IF ~(isBoolean(shortcut) \/ isString(shortcut) \/ isFunctionReturningString(shortcut))
    THEN Err("shortcut should be a boolean or a string or a function that returns a string")
    ELSE IF isBoolean(shortcut) THEN Ok([k \in {keyUse} |-> shortcut])
    ELSE IF isString(shortcut)
         THEN Ok([k \in {keyUse, keyAdd} |-> IF k = keyUse THEN Bool(TRUE) ELSE add])
    ELSE Ok([k \in {keyUse, keyAdd} |-> IF k = keyUse THEN Bool(TRUE) ELSE shortcut])

fromShortcut(shortcut, keyUse, keyAdd, add) ==
    IF ~(isBoolean(shortcut) \/ isString(shortcut) \/ isFunctionReturningString(shortcut))
    THEN Err("shortcut should be a boolean or a string or a function that returns a string")
    ELSE IF isBoolean(shortcut) THEN Ok([k \in {keyUse} |-> shortcut])
    ELSE IF isString(shortcut)
         THEN Ok([k \in {keyUse, keyAdd} |->
                    IF k = keyUse THEN Bool(TRUE) ELSE Closure(add, shortcut.v)])
    ELSE Ok([k \in {keyUse, keyAdd} |-> IF k = keyUse THEN Bool(TRUE) ELSE shortcut])

\* processedOptions: a record holding keyUse and/or keyAdd, or an error
processShortcuts(options, keyShortcut, keyUse, keyAdd, add) ==
    IF isDefined(options, keyUse) \/ isDefined(options, keyAdd)
    THEN IF isDefined(options, keyShortcut)
         THEN Err("shortcut should not be used with either use or add")
         ELSE IF isDefined(options, keyUse) /\ ~isBoolean(options[keyUse])
              THEN Err("use should be a boolean")
         ELSE IF isDefined(options, keyAdd) /\ ~isFunctionReturningString(options[keyAdd])
              THEN Err("add should be a function that returns a string")
         ELSE Ok([k \in {keyUse, keyAdd} \cap DOMAIN options |-> options[k]])
    ELSE IF isDefined(options, keyShortcut)
         THEN fromShortcut(options[keyShortcut], keyUse, keyAdd, add)
    ELSE Ok([k \in {} |-> TRUE])

Pick(processed, key, default) ==
    IF isDefined(processed, key) THEN processed[key] ELSE default

mainOptions(append, defaultOptions, publicPathOptions, hashOptions) ==
    [append |-> append,
     usePublicPath |-> Pick(publicPathOptions, "usePublicPath", defaultOptions.usePublicPath),
     addPublicPath |-> Pick(publicPathOptions, "addPublicPath", defaultOptions.addPublicPath),
     useHash |-> Pick(hashOptions, "useHash", defaultOptions.useHash),
     addHash |-> Pick(hashOptions, "addHash", defaultOptions.addHash)]

getValidatedMainOptions(options, defaultOptions) ==
    IF ~isObject(options) THEN Err("options should be an object")
    ELSE IF isDefined(options, "append") /\ ~isBoolean(options.append)
         THEN Err("append should be a boolean")
    ELSE Bind(processShortcuts(options, "publicPath", "usePublicPath", "addPublicPath",
                               defaultOptions.addPublicPath),
              LAMBDA publicPathOptions :
                Bind(processShortcuts(options, "hash", "useHash", "addHash",
                                      defaultOptions.addHash),
                     LAMBDA hashOptions :
                       Ok(mainOptions(Pick(options, "append", defaultOptions.append),
                                      defaultOptions, publicPathOptions, hashOptions))))

\* the tags branch of getValidatedOptions: [linkObjects, scriptObjects]
tagsBranch(options, append) ==
    IF ~isDefined(options, "tags") THEN Ok([linkObjects |-> <<>>, scriptObjects |-> <<>>])
    ELSE Bind(getAllTagObjects(options, append, "tags"),
              LAMBDA tagObjects :
                Bind(splitLinkScriptTags(tagObjects, options),
                     LAMBDA split :
                       Bind(validateTagObjectExternals(split.linkObjects, FALSE),
                            LAMBDA l :
                              Bind(validateTagObjectExternals(split.scriptObjects, TRUE),
                                   LAMBDA sc : Ok(split)))))

\* the links and the scripts branch of getValidatedOptions
sideBranch(options, append, optionName, isScript) ==
    IF ~isDefined(options, optionName) THEN Ok(<<>>)
    ELSE Bind(getAllTagObjects(options, append, optionName),
              LAMBDA objs :
                Bind(validateTagObjectExternals(objs, isScript), LAMBDA e : Ok(objs)))

isAppend(tagObject) == Truthy(tagObject.append)
isPrepend(tagObject) == ~Truthy(tagObject.append)

\* the buckets with the two filters of each kind exchanged
bucketsOf_swapped(links, scripts) ==
    [links |-> links,
     linksPrepend |-> SelectSeq(links, isAppend),
     linksAppend |-> SelectSeq(links, isPrepend),
     scripts |-> scripts,
     scriptsPrepend |-> SelectSeq(scripts, isAppend),
     scriptsAppend |-> SelectSeq(scripts, isPrepend)]

\* links.filter(...) and scripts.filter(...): the four buckets
bucketsOf(links, scripts) ==
    [links |-> links,
     linksPrepend |-> SelectSeq(links, isPrepend),
     linksAppend |-> SelectSeq(links, isAppend),
     scripts |-> scripts,
     scriptsPrepend |-> SelectSeq(scripts, isPrepend),
     scriptsAppend |-> SelectSeq(scripts, isAppend)]

\* links = links.concat(...), scripts = scripts.concat(...)
mergeSurfaces(defaultOptions, fromTags, fromLinks, fromScripts) ==
    [links |-> defaultOptions.links \o fromTags.linkObjects \o fromLinks,
     scripts |-> defaultOptions.scripts \o fromTags.scriptObjects \o fromScripts]

validatedOptions(main, b) ==
    [links |-> b.links,
     linksPrepend |-> b.linksPrepend,
     linksAppend |-> b.linksAppend,
     scripts |-> b.scripts,
     scriptsPrepend |-> b.scriptsPrepend,
     scriptsAppend |-> b.scriptsAppend,
     append |-> main.append,
     usePublicPath |-> main.usePublicPath,
     addPublicPath |-> main.addPublicPath,
     useHash |-> main.useHash,
     addHash |-> main.addHash]

bucketsOfMerged(m) == bucketsOf(m.links, m.scripts)

getValidatedOptions(options, defaultOptions) ==
    IF ~isObject(options) THEN Err("options should be an object")
    ELSE Bind(getValidatedMainOptions(options, defaultOptions),
              LAMBDA main :
                Bind(tagsBranch(options, main.append),
                     LAMBDA t :
                       Bind(sideBranch(options, main.append, "links", FALSE),
                            LAMBDA l :
                              Bind(sideBranch(options, main.append, "scripts", TRUE),
                                   LAMBDA sc :
                                     Ok(validatedOptions(
                                          main,
                                          bucketsOfMerged(
                                            mergeSurfaces(defaultOptions, t, l, sc))))))))

(***************************************************************************)
(* Path resolver                                                           *)
(***************************************************************************)
\* one step of getTagPath: the per-tag setting, else the global policy
applyStep(path, tagObject, key, use, add, runtimeValue) ==
    IF isDefined(tagObject, key)
    THEN IF isBoolean(tagObject[key]) /\ tagObject[key].v
         THEN CallFn(add, path, runtimeValue).v
         ELSE IF isFunction(tagObject[key]) THEN CallFn(tagObject[key], path, runtimeValue).v
         ELSE path
    ELSE IF Truthy(use) THEN CallFn(add, path, runtimeValue).v
    ELSE path

\* the two steps taken in the opposite order
getTagPath_hashFirst(tagObject, options, webpackPublicPath, compilationHash) ==
    LET p1 == applyStep(tagObject.path.v, tagObject, "hash", options.useHash, options.addHash,
                        compilationHash)
        p2 == applyStep(p1, tagObject, "publicPath", options.usePublicPath,
                        options.addPublicPath, webpackPublicPath)
    IN slash(p2)

getTagPath(tagObject, options, webpackPublicPath, compilationHash) ==
    LET p1 == applyStep(tagObject.path.v, tagObject, "publicPath", options.usePublicPath,
                        options.addPublicPath, webpackPublicPath)
        p2 == applyStep(p1, tagObject, "hash", options.useHash, options.addHash,
                        compilationHash)
    IN slash(p2)

(***************************************************************************)
(* Construction                                                            *)
(***************************************************************************)
withFiles(validated, files) ==
    IF ~(isString(files) \/ isArrayOfString(files))
    THEN Err("files should be a string or array of strings")
    ELSE Ok(With(validated, "files", IF isString(files) THEN <<files>> ELSE files.v))

getAllValidatedOptions(options) ==
    Bind(getValidatedOptions(options, DEFAULT_OPTIONS),
         LAMBDA validated :
           IF isDefined(options, "files") THEN withFiles(validated, options.files)
           ELSE Ok(validated))

\* new HtmlWebpackTagsPlugin(options): this.options, or the error thrown
HtmlWebpackTagsPlugin(options) == getAllValidatedOptions(options)

\* getShouldSkip(validatedOptions.files)(htmlPluginData)
\* a plugin that never skips a document
getShouldSkip_never(options, htmlPluginData) == FALSE

getShouldSkip(options, htmlPluginData) ==
    IF isDefined(options, "files")
    THEN ~\E i \in DOMAIN options.files :
              Minimatch(htmlPluginData.outputName, options.files[i].v)
    ELSE FALSE

(***************************************************************************)
(* Bounds and input sets                                                   *)
(***************************************************************************)
MaxTags == 2
MaxHostAssets == 2

SeqsUpTo(S, n) == UNION {[1..k -> S] : k \in 0..n}

TagObj(p) == [t |-> "obj", path |-> Str(p)]

\* base, and base with key set to each of the choices
Variants(bases, key, choices) ==
    bases \cup {With(b, key, c) : b \in bases, c \in choices}

Booleans == {Bool(TRUE), Bool(FALSE)}

NotConstructed == [ok |-> FALSE, error |-> "not constructed"]

NoFs == [d \in {} |-> <<>>]
LibsFs == [d \in {s_libs} |-> <<s_a_js, s_b_js, s_m_css>>]

\* compiler.options before apply(): no externals, or a registry that holds
\* an entry of another package and an entry under a name the plugin also sets
ExternalsBefore == [k \in {s_react, s_jq} |-> IF k = s_react THEN s_React ELSE s_JQ]
CompilerOptionsChoices == {[t |-> "obj"],
                           [t |-> "obj", externals |-> ExternalsBefore]}

\* ---- configurations about bucketing (tags, links, scripts, append)
BucketTagAlphabet ==
    Variants({TagObj(s_a_js), TagObj(s_a_css), TagObj(s_b_css)}, "append", Booleans)

BucketLinks ==
    {Arr(<<Str(s_m_css)>>),
     Arr(<<With(TagObj(s_m_css), "append", Bool(FALSE)), With(TagObj(s_rel), "append", Bool(TRUE)),
           TagObj(s_b_css)>>)}

BucketScripts ==
    {Arr(<<Str(s_m_js)>>),
     Arr(<<With(TagObj(s_m_js), "append", Bool(TRUE)), With(TagObj(s_n_js), "append", Bool(FALSE)),
           TagObj(s_a_js)>>)}

BucketOptions ==
    LET base == {With([t |-> "obj"], "tags", Arr(ts)) :
                    ts \in SeqsUpTo(BucketTagAlphabet, MaxTags)}
        a == Variants(base, "append", Booleans)
        l == Variants(a, "links", BucketLinks)
    IN Variants(l, "scripts", BucketScripts)

\* ---- configurations about externals
ExternalChoices ==
    {[t |-> "obj", packageName |-> Str(s_jq), variableName |-> Str(s_dollar)],
     [t |-> "obj", packageName |-> Str(s_jq), variableName |-> Str(s_jq)],
     [t |-> "obj", packageName |-> Str(s_vendor), variableName |-> Str(s_dollar)],
     [t |-> "obj", packageName |-> Str(s_jq)],
     [t |-> "obj", variableName |-> Str(s_dollar)],
     [t |-> "obj"],
     Str(s_jq)}

ExternalTagAlphabet ==
    Variants({TagObj(s_a_js), TagObj(s_a_css),
              [t |-> "obj", path |-> Str(s_a_css), type |-> Str(ASSET_TYPE_JS)],
              [t |-> "obj", path |-> Str(s_a_js), type |-> Str(ASSET_TYPE_CSS)]},
             "external", ExternalChoices)

ExternalOptions ==
    {With([t |-> "obj"], surface, Arr(ts)) :
        surface \in {"tags", "links", "scripts"},
        ts \in SeqsUpTo(ExternalTagAlphabet, MaxTags)}

\* ---- configurations about the publicPath and hash shorthand families
ShortcutValues ==
    Booleans \cup {Str(s_fixed), Str(s_rel), Fn("userPrefix"), Fn("userSuffix"),
                   Fn("userNumber"), Num(1)}
UseValues == Booleans \cup {Str(s_rel)}
AddValues == {Fn("userPrefix"), Fn("userSuffix"), Fn("userNumber"), Bool(TRUE)}

FamilyOptions(bases, keyShortcut, keyUse, keyAdd) ==
    Variants(Variants(Variants(bases, keyShortcut, ShortcutValues), keyUse, UseValues),
             keyAdd, AddValues)

ShortcutTags ==
    {Arr(<<Str(s_a_js), Str(s_a_css)>>),
     Arr(<<With(TagObj(s_win), "publicPath", Bool(TRUE)), With(TagObj(s_a_css), "hash", Bool(TRUE))>>),
     Arr(<<With(TagObj(s_a_js), "publicPath", Bool(FALSE)), TagObj(s_up)>>)}

ShortcutOptions ==
    LET base == {With([t |-> "obj"], "tags", ts) : ts \in ShortcutTags}
        pp == FamilyOptions(base, "publicPath", "usePublicPath", "addPublicPath")
        hh == FamilyOptions(base, "hash", "useHash", "addHash")
        both == {With(With(b, "publicPath", x), "hash", y) :
                    b \in base, x \in {Bool(FALSE), Str(s_fixed)}, y \in {Bool(TRUE), Str(s_hash)}}
    IN pp \cup hh \cup both

\* ---- configurations about classification of tags entries
ClassifyPaths == {s_a_js, s_a_css, s_a_mjs, s_ajs, s_a_JS, s_js, s_rel, s_dot_js, s_win}

ClassifyTagAlphabet ==
    {Str(p) : p \in ClassifyPaths}
    \cup Variants({TagObj(p) : p \in ClassifyPaths}, "type",
                  {Str(ASSET_TYPE_CSS), Str(ASSET_TYPE_JS), Str(s_a_mjs), Bool(TRUE)})

ExtensionChoices ==
    {Str(s_dot_mjs), Arr(<<Str(s_dot_js), Str(s_dot_mjs)>>), Arr(<<Str(s_js)>>),
     Arr(<<Str(s_dot_css), Num(1)>>), Num(1)}

ClassifyOptions ==
    LET one == {With([t |-> "obj"], "tags", Arr(<<x>>)) : x \in ClassifyTagAlphabet}
        two == {With([t |-> "obj"], "tags", Arr(ts)) :
                   ts \in SeqsUpTo({Str(s_a_js), Str(s_a_css), Str(s_ajs), Str(s_a_mjs)}, MaxTags)}
        bare == {With([t |-> "obj"], "tags", x) : x \in {Str(s_a_js), TagObj(s_a_css), Num(1)}}
    IN Variants(Variants(one, "jsExtensions", ExtensionChoices), "cssExtensions", ExtensionChoices)
       \cup two \cup bare

\* ---- configurations with glob directives
GlobTags ==
    {[t |-> "obj", path |-> Str(s_vendor), glob |-> Str(s_globJs), globPath |-> Str(s_libs)],
     [t |-> "obj", path |-> Str(s_vendor), glob |-> Str(s_globJs), globPath |-> Str(s_none)],
     [t |-> "obj", path |-> Str(s_vendor), glob |-> Str(s_globJs)],
     [t |-> "obj", path |-> Str(s_vendor), globPath |-> Str(s_libs)],
     [t |-> "obj", path |-> Str(s_vendor), glob |-> Str(s_globJs), globPath |-> Str(s_libs),
      append |-> Bool(FALSE)]}

GlobOptions ==
    {With([t |-> "obj"], surface, Arr(<<g>>)) : surface \in {"tags", "scripts"}, g \in GlobTags}
    \cup {With([t |-> "obj"], "scripts", Arr(<<Str(s_m_js), g, Str(s_n_js)>>)) : g \in GlobTags}

(***************************************************************************)
(* Construction and apply                                                  *)
(***************************************************************************)
NoDoc == [t |-> "obj"]
NoTagRun == [t |-> "obj"]

Idle == /\ doc = NoDoc
        /\ doc0 = NoDoc
        /\ cb = FALSE
        /\ regs = <<>>
        /\ settled = <<>>
        /\ allState = [state |-> "none"]
        /\ hostGot = <<>>
        /\ tagIn = NoTagRun
        /\ tagOut = <<>>

handlerVars == <<doc, doc0, cb, regs, settled, allState, hostGot>>
pathVars == <<tagIn, tagOut>>

\* new HtmlWebpackTagsPlugin(rawOptions)
Construct ==
    /\ pc = "new"
    /\ plugin' = HtmlWebpackTagsPlugin(rawOptions)
    /\ pc' = IF plugin'.ok THEN "constructed" ELSE "configError"
    /\ UNCHANGED <<fs, rawOptions, compilerOptions, compiler0, handlerVars, pathVars>>

\* scripts.forEach(script => externals[packageName] = variableName), in order
RECURSIVE registerExternals(_, _)
registerExternals(scripts, ext) ==
    IF scripts = <<>> THEN ext
    ELSE LET script == Head(scripts)
             next == IF isDefined(script, "external") /\ isObject(script.external)
                     THEN [k \in DOMAIN ext \cup {script.external.packageName.v} |->
                             IF k = script.external.packageName.v
                             THEN script.external.variableName.v
                             ELSE ext[k]]
                     ELSE ext
         IN registerExternals(Tail(scripts), next)

\* compiler.options.externals || {}
externalsOrEmpty(options) ==
    IF isDefined(options, "externals") THEN options.externals ELSE [k \in {} |-> <<>>]

\* HtmlWebpackTagsPlugin.prototype.apply(compiler), up to the hook registration
Apply ==
    /\ pc = "constructed"
    /\ compilerOptions' = With(compilerOptions, "externals",
                               registerExternals(plugin.val.scripts,
                                                 externalsOrEmpty(compilerOptions)))
    /\ pc' = "applied"
    /\ UNCHANGED <<fs, rawOptions, plugin, compiler0, handlerVars, pathVars>>

InitOptions ==
    /\ rawOptions \in BucketOptions \cup ExternalOptions \cup ShortcutOptions
                      \cup ClassifyOptions \cup GlobOptions
    /\ fs = IF rawOptions \in GlobOptions THEN LibsFs ELSE NoFs
    /\ compilerOptions \in IF rawOptions \in ExternalOptions THEN CompilerOptionsChoices
                           ELSE {[t |-> "obj"]}
    /\ compiler0 = compilerOptions
    /\ plugin = NotConstructed
    /\ pc = "new"
    /\ Idle

NextOptions == Construct \/ Apply

SpecOptions == InitOptions /\ [][NextOptions]_vars

(***************************************************************************)
(* Path resolver runs: getTagPath on one descriptor                        *)
(***************************************************************************)
PerTagSettings == Booleans \cup {Fn("userPrefix"), Fn("userSuffix")}

PathTagObjects ==
    Variants(Variants({With(TagObj(p), "append", Bool(TRUE)) : p \in {s_a_js, s_win, s_up}},
                      "publicPath", PerTagSettings),
             "hash", PerTagSettings)

PathOptions ==
    [usePublicPath : Booleans,
     addPublicPath : {Fn("defaultAddPublicPath"), Fn("userPrefix"), Fn("userSuffix"),
                      Closure(Fn("defaultAddPublicPath"), s_fixed)},
     useHash : Booleans,
     addHash : {Fn("defaultAddHash"), Fn("userSuffix"), Closure(Fn("defaultAddHash"), s_rel)}]

InitPath ==
    /\ tagIn \in [tagObject : PathTagObjects, options : PathOptions,
                  webpackPublicPath : {s_cdn, s_empty}, compilationHash : {s_hash}]
    /\ tagOut = <<>>
    /\ pc = "resolve"
    /\ fs = NoFs
    /\ rawOptions = [t |-> "obj"]
    /\ plugin = NotConstructed
    /\ compilerOptions = [t |-> "obj"]
    /\ compiler0 = compilerOptions
    /\ doc = NoDoc
    /\ doc0 = NoDoc
    /\ cb = FALSE
    /\ regs = <<>>
    /\ settled = <<>>
    /\ allState = [state |-> "none"]
    /\ hostGot = <<>>

ResolvePath ==
    /\ pc = "resolve"
    /\ tagOut' = getTagPath(tagIn.tagObject, tagIn.options, tagIn.webpackPublicPath,
                            tagIn.compilationHash)
    /\ pc' = "resolved"
    /\ UNCHANGED <<fs, rawOptions, plugin, compilerOptions, compiler0, handlerVars, tagIn>>

NextPath == ResolvePath

SpecPath == InitPath /\ [][NextPath]_vars

(***************************************************************************)
(* Injection coordinator: the two hook handlers of one document            *)
(***************************************************************************)
s_async == <<"1">>
s_sheet == <<"s", "h">>
s_print == <<"p", "r">>

LifecycleTagSets ==
    {[t |-> "obj",
      scripts |-> Arr(<<[t |-> "obj", path |-> Str(s_a_js), append |-> Bool(FALSE),
                         sourcePath |-> Str(s_map),
                         attributes |-> [t |-> "obj", async |-> Bool(TRUE)]],
                        [t |-> "obj", path |-> Str(s_win), sourcePath |-> Str(s_map2),
                         attributes |-> [t |-> "obj", src |-> Str(s_b_js), id |-> Num(1)]]>>),
      links |-> Arr(<<[t |-> "obj", path |-> Str(s_a_css), append |-> Bool(FALSE),
                       attributes |-> [t |-> "obj", rel |-> Str(s_print)]],
                      Str(s_b_css)>>)],
     [t |-> "obj", tags |-> Arr(<<Str(s_a_css), Str(s_a_js)>>)],
     [t |-> "obj",
      links |-> Arr(<<[t |-> "obj", path |-> Str(s_a_css), sourcePath |-> Str(s_map),
                       attributes |-> [t |-> "obj", media |-> Str(s_print)]],
                      [t |-> "obj", path |-> Str(s_b_css), append |-> Bool(FALSE),
                       sourcePath |-> Str(s_map2)]>>),
      scripts |-> Arr(<<[t |-> "obj", path |-> Str(s_a_js), sourcePath |-> Str(s_map)]>>),
      hash |-> Bool(TRUE)],
     [t |-> "obj",
      tags |-> Arr(<<[t |-> "obj", path |-> Str(s_a_css),
                      attributes |-> [t |-> "obj", href |-> Str(s_b_css)]],
                     [t |-> "obj", path |-> Str(s_a_js), append |-> Bool(FALSE),
                      attributes |-> [t |-> "obj", defer |-> Bool(TRUE)]]>>),
      usePublicPath |-> Bool(FALSE)]}

FilesChoices == {Str(s_index), Arr(<<Str(s_other), Str(s_anyHtml)>>), Arr(<<Str(s_other)>>),
                 Arr(<<>>)}

LifecycleOptions == Variants(LifecycleTagSets, "files", FilesChoices)

OutputNames == {s_index, s_other}
HostCss == SeqsUpTo({s_m_css, s_b_css}, MaxHostAssets)
HostJs == SeqsUpTo({s_m_js}, MaxHostAssets)

\* what the host receives: a callback invocation or the handler's return value
Called(hook, outcome, err) == [hook |-> hook, via |-> "callback", outcome |-> outcome, err |-> err]
Returned(hook, outcome) == [hook |-> hook, via |-> "return", outcome |-> outcome, err |-> 0]

hasSourcePath(tag) == isDefined(tag, "sourcePath") /\ isString(tag.sourcePath)

\* the order in which getPath visits the descriptors
getPathOrder(options) ==
    options.scriptsPrepend \o options.scriptsAppend \o options.linksPrepend
        \o options.linksAppend

\* assetPromises after the four map(getPath) calls: addAsset either threw
\* (Promise.reject(err)) or returned the host's pending promise
assetPromisesOf(options, throws) ==
    LET withSource == SelectSeq(getPathOrder(options), hasSourcePath)
    IN [i \in DOMAIN withSource |->
          [sourcePath |-> withSource[i].sourcePath.v,
           state |-> IF i \in throws THEN "rejected" ELSE "pending"]]

RECURSIVE ascending(_, _)
ascending(set, from) ==
    IF set = {} THEN <<>>
    ELSE IF from \in set THEN <<from>> \o ascending(set \ {from}, from + 1)
    ELSE ascending(set, from + 1)

pathsOf(bucket, options, pluginPublicPath, compilationHash) ==
    MapSeq(bucket, LAMBDA tag : getTagPath(tag, options, pluginPublicPath, compilationHash))

\* both buckets of a kind pushed behind the host's list
splicedAssets_allAppended(assets, options, compilationHash) ==
    [assets EXCEPT
       !.js = @ \o pathsOf(options.scriptsPrepend, options, assets.publicPath, compilationHash)
              \o pathsOf(options.scriptsAppend, options, assets.publicPath, compilationHash),
       !.css = @ \o pathsOf(options.linksPrepend, options, assets.publicPath, compilationHash)
               \o pathsOf(options.linksAppend, options, assets.publicPath, compilationHash)]

\* assets.js = jsPrependPaths.concat(assets.js).concat(jsAppendPaths), and css
splicedAssets(assets, options, compilationHash) ==
    [assets EXCEPT
       !.js = pathsOf(options.scriptsPrepend, options, assets.publicPath, compilationHash)
              \o @
              \o pathsOf(options.scriptsAppend, options, assets.publicPath, compilationHash),
       !.css = pathsOf(options.linksPrepend, options, assets.publicPath, compilationHash)
               \o @
               \o pathsOf(options.linksAppend, options, assets.publicPath, compilationHash)]

\* onBeforeHtmlGeneration(htmlPluginData, callback), up to its return
OnBeforeHtmlGeneration ==
    /\ pc = "applied"
    /\ \E outputName \in OutputNames, css \in HostCss, js \in HostJs, callback \in BOOLEAN :
         LET htmlPluginData ==
                 [t |-> "obj", outputName |-> outputName,
                  assets |-> [publicPath |-> s_cdn, css |-> css, js |-> js]]
         IN /\ doc0' = htmlPluginData
            /\ cb' = callback
            /\ IF getShouldSkip(plugin.val, htmlPluginData)
               THEN /\ doc' = htmlPluginData
                    /\ hostGot' = Append(hostGot,
                                         IF callback THEN Called("before", "success", 0)
                                         ELSE Returned("before", "resolved"))
                    /\ regs' = <<>>
                    /\ settled' = <<>>
                    /\ allState' = [state |-> "none"]
                    /\ pc' = "beforeDone"
               ELSE \E throws \in SUBSET DOMAIN assetPromisesOf(plugin.val, {}) :
                    /\ regs' = assetPromisesOf(plugin.val, throws)
                    /\ settled' = ascending(throws, 1)
                    /\ doc' = [htmlPluginData EXCEPT
                                 !.assets = splicedAssets(@, plugin.val, s_hash)]
                    /\ allState' = [state |-> "pending"]
                    /\ hostGot' = Append(hostGot, Returned("before", "undefined"))
                    /\ pc' = "beforeWaiting"
    /\ UNCHANGED <<fs, rawOptions, plugin, compilerOptions, compiler0, pathVars>>

\* a pending registration of the host (addFileToAssets) completes
RegistrationSettles ==
    /\ pc \in {"beforeWaiting", "beforeDone", "rendered", "altered"}
    /\ \E i \in DOMAIN regs, outcome \in {"fulfilled", "rejected"} :
         /\ regs[i].state = "pending"
         /\ regs' = [regs EXCEPT ![i].state = outcome]
         /\ settled' = Append(settled, i)
    /\ UNCHANGED <<fs, rawOptions, plugin, compilerOptions, compiler0, pc, doc, doc0, cb,
                   allState, hostGot, pathVars>>

firstRejected ==
    settled[CHOOSE k \in DOMAIN settled :
              /\ regs[settled[k]].state = "rejected"
              /\ \A j \in 1..(k - 1) : regs[settled[j]].state # "rejected"]

\* Promise.all(assetPromises) settles: rejected with the first rejection, or
\* fulfilled once every registration is
PromiseAllSettles ==
    /\ pc = "beforeWaiting"
    /\ allState.state = "pending"
    /\ IF \E i \in DOMAIN regs : regs[i].state = "rejected"
       THEN allState' = [state |-> "rejected", err |-> firstRejected]
       ELSE /\ \A i \in DOMAIN regs : regs[i].state = "fulfilled"
            /\ allState' = [state |-> "fulfilled"]
    /\ UNCHANGED <<fs, rawOptions, plugin, compilerOptions, compiler0, pc, doc, doc0, cb,
                   regs, settled, hostGot, pathVars>>

\* the first argument of .then(): callback(null, htmlPluginData), or a promise
\* returned to the chain that nothing holds
OnAllFulfilled ==
    /\ pc = "beforeWaiting"
    /\ allState.state = "fulfilled"
    /\ hostGot' = IF cb THEN Append(hostGot, Called("before", "success", 0)) ELSE hostGot
    /\ pc' = "beforeDone"
    /\ UNCHANGED <<fs, rawOptions, plugin, compilerOptions, compiler0, doc, doc0, cb, regs,
                   settled, allState, pathVars>>

\* the second argument of .then(): callback(err), or a rejection returned to
\* the chain that nothing holds
OnAllRejected ==
    /\ pc = "beforeWaiting"
    /\ allState.state = "rejected"
    /\ hostGot' = IF cb THEN Append(hostGot, Called("before", "failure", allState.err))
                  ELSE hostGot
    /\ pc' = "beforeDone"
    /\ UNCHANGED <<fs, rawOptions, plugin, compilerOptions, compiler0, doc, doc0, cb, regs,
                   settled, allState, pathVars>>

\* the host was told that the before-generation hook succeeded
beforeSucceeded ==
    /\ hostGot # <<>>
    /\ hostGot[Len(hostGot)].hook = "before"
    /\ hostGot[Len(hostGot)].outcome \in {"success", "resolved"}

linkTag(path) ==
    [tagName |-> "link",
     attributes |-> [t |-> "obj", href |-> Str(path), rel |-> Str(s_sheet)]]
scriptTag(path) ==
    [tagName |-> "script", attributes |-> [t |-> "obj", src |-> Str(path)]]
metaTag == [tagName |-> "meta", attributes |-> [t |-> "obj"]]

\* the host turns the asset lists into tag nodes: one link per assets.css
\* entry in the head, one script per assets.js entry in the body, each list
\* possibly led by a tag of another kind; html-webpack-plugin 3 names the
\* lists head and body, html-webpack-plugin 4 headTags and bodyTags
HostRender ==
    /\ pc = "beforeDone"
    /\ beforeSucceeded
    /\ \E version \in {3, 4}, lead \in {<<>>, <<metaTag>>} :
         LET head == lead \o MapSeq(doc.assets.css, linkTag)
             body == lead \o MapSeq(doc.assets.js, scriptTag)
         IN doc' = IF version = 3
                   THEN [t |-> "obj", outputName |-> doc.outputName, assets |-> doc.assets,
                         head |-> head, body |-> body]
                   ELSE [t |-> "obj", outputName |-> doc.outputName, assets |-> doc.assets,
                         headTags |-> head, bodyTags |-> body]
    /\ doc0' = doc'
    /\ pc' = "rendered"
    /\ UNCHANGED <<fs, rawOptions, plugin, compilerOptions, compiler0, cb, regs, settled,
                   allState, hostGot, pathVars>>

\* the descriptor's attributes put in place of the tag's
mergedAttributes_replaced(tagAttributes, tagObject) ==
    IF isDefined(tagObject, "attributes") THEN tagObject.attributes ELSE tagAttributes

\* Object.keys(attributes).forEach(a => tagAttributes[a] = attributes[a])
mergedAttributes(tagAttributes, tagObject) ==
    IF isDefined(tagObject, "attributes")
    THEN [k \in DOMAIN tagAttributes \cup Keys(tagObject.attributes) |->
            IF k \in Keys(tagObject.attributes) THEN tagObject.attributes[k]
            ELSE tagAttributes[k]]
    ELSE tagAttributes

\* copyAttributes(tags, tagObjects), the tags given by their places in list
RECURSIVE copyAttributes(_, _, _, _)
copyAttributes(list, places, tagObjects, i) ==
    IF i > Len(places) THEN list
    ELSE copyAttributes([list EXCEPT ![places[i]].attributes =
                                         mergedAttributes(@, tagObjects[i])],
                        places, tagObjects, i + 1)

\* the places in list of the tags named tagName (list.filter(...))
RECURSIVE placesOf(_, _, _)
placesOf(list, tagName, i) ==
    IF i > Len(list) THEN <<>>
    ELSE (IF list[i].tagName = tagName THEN <<i>> ELSE <<>>) \o placesOf(list, tagName, i + 1)

\* slice(0, prepend.length) and slice(length - append.length) of the places
prependPlaces(places, prepend) == JsSlice(places, 0, Len(prepend))
appendPlaces(places, append) == JsSlice(places, Len(places) - Len(append), Len(places))

alteredList(list, tagName, prepend, append) ==
    copyAttributes(list,
                   prependPlaces(placesOf(list, tagName, 1), prepend)
                       \o appendPlaces(placesOf(list, tagName, 1), append),
                   prepend \o append, 1)

pluginHead(htmlPluginData) ==
    IF isDefined(htmlPluginData, "head") THEN htmlPluginData.head ELSE htmlPluginData.headTags
pluginBody(htmlPluginData) ==
    IF isDefined(htmlPluginData, "body") THEN htmlPluginData.body ELSE htmlPluginData.bodyTags

alteredDoc(htmlPluginData, options) ==
    LET head == alteredList(pluginHead(htmlPluginData), "link", options.linksPrepend,
                            options.linksAppend)
        body == alteredList(pluginBody(htmlPluginData), "script", options.scriptsPrepend,
                            options.scriptsAppend)
    IN IF isDefined(htmlPluginData, "head")
       THEN [htmlPluginData EXCEPT !.head = head, !.body = body]
       ELSE [htmlPluginData EXCEPT !.headTags = head, !.bodyTags = body]

\* onAlterAssetTag(htmlPluginData, callback)
OnAlterAssetTag ==
    /\ pc = "rendered"
    /\ \E callback \in BOOLEAN :
         /\ cb' = callback
         /\ hostGot' = Append(hostGot, IF callback THEN Called("alter", "success", 0)
                                       ELSE Returned("alter", "resolved"))
    /\ doc' = IF getShouldSkip(plugin.val, doc) THEN doc ELSE alteredDoc(doc, plugin.val)
    /\ pc' = "altered"
    /\ UNCHANGED <<fs, rawOptions, plugin, compilerOptions, compiler0, doc0, regs, settled,
                   allState, pathVars>>

Init ==
    /\ rawOptions \in LifecycleOptions
    /\ fs = NoFs
    /\ compilerOptions = [t |-> "obj"]
    /\ compiler0 = compilerOptions
    /\ plugin = NotConstructed
    /\ pc = "new"
    /\ Idle

Next ==
    \/ Construct
    \/ Apply
    \/ OnBeforeHtmlGeneration
    \/ RegistrationSettles
    \/ PromiseAllSettles
    \/ OnAllFulfilled
    \/ OnAllRejected
    \/ HostRender
    \/ OnAlterAssetTag

Spec == Init /\ [][Next]_vars
(***************************************************************************)
(* The tag normalizer on its own                                           *)
(***************************************************************************)
\* raw tag specifications: strings, objects with and without the two glob
\* keys (well typed and ill typed), with fields to inherit, and non-specs
NormalizeTags ==
    LET base == {TagObj(s_vendor), TagObj(s_win), TagObj(s_a_js),
                 With(TagObj(s_vendor), "attributes", [t |-> "obj", async |-> Bool(TRUE)]),
                 With(TagObj(s_vendor), "sourcePath", Str(s_map))}
        a == Variants(base, "append", {Bool(FALSE), Num(1)})
        g == Variants(a, "glob", {Str(s_globJs), Str(s_anyHtml), Num(1)})
    IN Variants(g, "globPath", {Str(s_libs), Str(s_none), Num(1)})
       \cup {Str(s_vendor), Str(s_a_js), Num(1), [t |-> "obj"],
             [t |-> "obj", glob |-> Str(s_globJs), globPath |-> Str(s_libs)]}

InitNormalize ==
    /\ tagIn \in [tag : NormalizeTags]
    /\ fs \in {NoFs, LibsFs}
    /\ tagOut = <<>>
    /\ pc = "normalize"
    /\ rawOptions = [t |-> "obj"]
    /\ plugin = NotConstructed
    /\ compilerOptions = [t |-> "obj"]
    /\ compiler0 = compilerOptions
    /\ doc = NoDoc
    /\ doc0 = NoDoc
    /\ cb = FALSE
    /\ regs = <<>>
    /\ settled = <<>>
    /\ allState = [state |-> "none"]
    /\ hostGot = <<>>

\* getTagObjects(tag, optionName, optionPath)
Normalize ==
    /\ pc = "normalize"
    /\ tagOut' = getTagObjects(tagIn.tag)
    /\ pc' = "normalized"
    /\ UNCHANGED <<fs, rawOptions, plugin, compilerOptions, compiler0, handlerVars, tagIn>>

NextNormalize == Normalize

SpecNormalize == InitNormalize /\ [][NextNormalize]_vars

(***************************************************************************)
(* What a configuration declares, read off the options object itself       *)
(***************************************************************************)
Constructed == pc \in {"constructed", "applied"}

\* the entries of one acceptance surface, in declaration order
EntriesOf(surface) ==
    IF ~isDefined(rawOptions, surface) THEN <<>>
    ELSE IF isArray(rawOptions[surface]) THEN rawOptions[surface].v
    ELSE <<rawOptions[surface]>>

\* the descriptors one entry declares: a string is wrapped, a glob directive
\* stands for one descriptor per matched file
DeclaredBy(entry) ==
    IF isString(entry) THEN <<[t |-> "obj", path |-> entry]>>
    ELSE IF isObject(entry) /\ isDefined(entry, "glob") /\ isDefined(entry, "globPath")
         THEN MapSeq(GlobSync(entry.glob.v, entry.globPath.v),
                     LAMBDA f : With(Without(entry, {"glob", "globPath"}), "path",
                                     Str(slash(PathJoin(entry.path.v, f)))))
    ELSE <<entry>>

DeclaredOn(surface) == ConcatAll(MapSeq(EntriesOf(surface), DeclaredBy))

ExtensionsWellFormed == getAssetTypeCheckers(rawOptions).ok

\* the kind of a tags descriptor as the plugin decides it
DecidedKind(d) ==
    IF isDefined(d, "type")
    THEN (IF ~isString(d.type) THEN "error"
          ELSE IF d.type.v = ASSET_TYPE_CSS THEN "css"
          ELSE IF d.type.v = ASSET_TYPE_JS THEN "js" ELSE "error")
    ELSE IF ~ExtensionsWellFormed THEN "error"
    ELSE IF isAssetTypeCss(rawOptions, d.path.v) THEN "css"
    ELSE IF isAssetTypeJs(rawOptions, d.path.v) THEN "js"
    ELSE "error"

\* the top-level append default: the given one, else true
ResolvedAppend == IF isDefined(rawOptions, "append") THEN rawOptions.append.v ELSE TRUE

\* a declared descriptor as it sits in a bucket: append resolved
Bucketed(d) ==
    LET a == IF isDefined(d, "append") THEN d.append.v ELSE ResolvedAppend
    IN With(d, "append", Bool(a))

\* a tags descriptor is bucketed without its classification key
Untyped(d) == Without(d, {"type"})

DeclaredCss ==
    MapSeq(MapSeq(SelectSeq(DeclaredOn("tags"), LAMBDA d : DecidedKind(d) = "css"), Untyped)
               \o DeclaredOn("links"), Bucketed)
DeclaredJs ==
    MapSeq(MapSeq(SelectSeq(DeclaredOn("tags"), LAMBDA d : DecidedKind(d) = "js"), Untyped)
               \o DeclaredOn("scripts"), Bucketed)

AppendFalse(seq) == SelectSeq(seq, LAMBDA d : d.append = Bool(FALSE))
AppendTrue(seq) == SelectSeq(seq, LAMBDA d : d.append = Bool(TRUE))

(***************************************************************************)
(* C1: for every configuration the constructor accepts, the CSS sequence   *)
(* is the CSS tags descriptors in declaration order followed by the links  *)
(* descriptors, linksPrepend is exactly its append=false subsequence and   *)
(* linksAppend exactly its append=true subsequence (their lengths add up   *)
(* to the number of CSS descriptors); the same for JS with tags and        *)
(* scripts; a descriptor declared without append takes the top-level       *)
(* append, which is true when not given.                                   *)
(***************************************************************************)
C1_Partition ==
    Constructed =>
      /\ plugin.val.links = DeclaredCss
      /\ plugin.val.linksPrepend = AppendFalse(DeclaredCss)
      /\ plugin.val.linksAppend = AppendTrue(DeclaredCss)
      /\ Len(plugin.val.linksPrepend) + Len(plugin.val.linksAppend) = Len(DeclaredCss)
      /\ plugin.val.scripts = DeclaredJs
      /\ plugin.val.scriptsPrepend = AppendFalse(DeclaredJs)
      /\ plugin.val.scriptsAppend = AppendTrue(DeclaredJs)
      /\ Len(plugin.val.scriptsPrepend) + Len(plugin.val.scriptsAppend) = Len(DeclaredJs)

\* both CSS buckets hold two or more descriptors coming from tags and from
\* links, both JS buckets are filled, and an entry without append was
\* bucketed by the default because no top-level append is given
C1_Witness ==
    /\ pc = "constructed"
    /\ ~isDefined(rawOptions, "append")
    /\ Len(EntriesOf("tags")) = 2
    /\ \E i \in DOMAIN EntriesOf("tags") : ~isDefined(EntriesOf("tags")[i], "append")
    /\ Len(plugin.val.linksPrepend) >= 2
    /\ Len(plugin.val.linksAppend) >= 2
    /\ Len(plugin.val.scriptsPrepend) >= 1
    /\ Len(plugin.val.scriptsAppend) >= 2

(***************************************************************************)
(* C2: the resolved path is the descriptor's path taken through the        *)
(* public-path step and then, on that step's output, through the hash      *)
(* step.  A step uses the global transform when the per-tag setting is     *)
(* true, the per-tag function when it is a function, nothing when it is    *)
(* false, and when the per-tag setting is undefined the global transform   *)
(* exactly when the global flag is on.                                     *)
(***************************************************************************)
StepOf(path, d, key, use, add, runtimeValue) ==
    CASE ~isDefined(d, key) ->
             IF use.v THEN CallFn(add, path, runtimeValue).v ELSE path
      [] isDefined(d, key) /\ isFunction(d[key]) -> CallFn(d[key], path, runtimeValue).v
      [] isDefined(d, key) /\ isBoolean(d[key]) ->
             IF d[key].v THEN CallFn(add, path, runtimeValue).v ELSE path

PublicPathStep(path, d, o, runtimePublicPath) ==
    StepOf(path, d, "publicPath", o.usePublicPath, o.addPublicPath, runtimePublicPath)
HashStep(path, d, o, runtimeHash) ==
    StepOf(path, d, "hash", o.useHash, o.addHash, runtimeHash)

PublicPathThenHash(d, o, runtimePublicPath, runtimeHash) ==
    slash(HashStep(PublicPathStep(d.path.v, d, o, runtimePublicPath), d, o, runtimeHash))
HashThenPublicPath(d, o, runtimePublicPath, runtimeHash) ==
    slash(PublicPathStep(HashStep(d.path.v, d, o, runtimeHash), d, o, runtimePublicPath))

C2_StepOrder ==
    pc = "resolved" =>
      tagOut = PublicPathThenHash(tagIn.tagObject, tagIn.options,
                                  tagIn.webpackPublicPath, tagIn.compilationHash)

\* a per-tag function overrides a disabled global public path, the hash comes
\* from the global policy, and the opposite order would give another path
C2_Witness ==
    /\ pc = "resolved"
    /\ isDefined(tagIn.tagObject, "publicPath")
    /\ isFunction(tagIn.tagObject.publicPath)
    /\ ~tagIn.options.usePublicPath.v
    /\ ~isDefined(tagIn.tagObject, "hash")
    /\ tagIn.options.useHash.v
    /\ tagOut # HashThenPublicPath(tagIn.tagObject, tagIn.options,
                                   tagIn.webpackPublicPath, tagIn.compilationHash)
    /\ tagOut # slash(tagIn.tagObject.path.v)

(***************************************************************************)
(* The document a handler was given, and whether the allowlist excludes it *)
(***************************************************************************)
FilePatterns ==
    IF isString(rawOptions.files) THEN <<rawOptions.files.v>>
    ELSE MapSeq(rawOptions.files.v, LAMBDA f : f.v)

\* an allowlist is configured and the output name matches none of its patterns
SkipExpected(d) ==
    /\ isDefined(rawOptions, "files")
    /\ \A i \in DOMAIN FilePatterns : ~Minimatch(d.outputName, FilePatterns[i])

AfterBefore == pc \in {"beforeWaiting", "beforeDone"}

ResolvedPaths(bucket, d) ==
    MapSeq(bucket, LAMBDA tag : PublicPathThenHash(tag, plugin.val, d.assets.publicPath, s_hash))

(***************************************************************************)
(* C3: once the before-generation handler has run on a document that is    *)
(* not skipped, assets.css is the resolved linksPrepend paths, then the    *)
(* CSS list the host passed in, then the resolved linksAppend paths, and   *)
(* assets.js is built the same way from scriptsPrepend, the host's JS list *)
(* and scriptsAppend.                                                      *)
(***************************************************************************)
C3_Splice ==
    (AfterBefore /\ ~SkipExpected(doc0)) =>
      /\ doc.assets.css = ResolvedPaths(plugin.val.linksPrepend, doc0)
                              \o doc0.assets.css
                              \o ResolvedPaths(plugin.val.linksAppend, doc0)
      /\ doc.assets.js = ResolvedPaths(plugin.val.scriptsPrepend, doc0)
                             \o doc0.assets.js
                             \o ResolvedPaths(plugin.val.scriptsAppend, doc0)

\* the host passed two different CSS entries and a JS entry, and both
\* buckets of both kinds contribute paths
C3_Witness ==
    /\ pc = "beforeDone"
    /\ ~SkipExpected(doc0)
    /\ Len(doc0.assets.css) = 2
    /\ doc0.assets.css[1] # doc0.assets.css[2]
    /\ doc0.assets.js # <<>>
    /\ plugin.val.linksPrepend # <<>>
    /\ plugin.val.linksAppend # <<>>
    /\ plugin.val.scriptsPrepend # <<>>
    /\ plugin.val.scriptsAppend # <<>>
    /\ Len(doc.assets.css) >= 4

(***************************************************************************)
(* C4: a document excluded by the allowlist leaves both handlers as it     *)
(* entered them (asset lists and rendered tags unchanged), starts no       *)
(* registration, and the host is still told of success; without an         *)
(* allowlist every document takes the injecting path.                      *)
(***************************************************************************)
C4_Skipped ==
    /\ (pc = "beforeDone" /\ SkipExpected(doc0)) =>
         /\ doc = doc0
         /\ regs = <<>>
         /\ hostGot = <<IF cb THEN Called("before", "success", 0)
                        ELSE Returned("before", "resolved")>>
    /\ (pc = "altered" /\ SkipExpected(doc0)) =>
         /\ doc = doc0
         /\ regs = <<>>
         /\ hostGot[Len(hostGot)] = (IF cb THEN Called("alter", "success", 0)
                                     ELSE Returned("alter", "resolved"))
    /\ (AfterBefore /\ ~isDefined(rawOptions, "files")) =>
         /\ allState.state # "none"
         /\ Len(regs) = Len(SelectSeq(getPathOrder(plugin.val), hasSourcePath))
         /\ Len(doc.assets.css) = Len(doc0.assets.css) + Len(plugin.val.links)
         /\ Len(doc.assets.js) = Len(doc0.assets.js) + Len(plugin.val.scripts)

\* an excluded document went through both handlers of a plugin that has
\* sourcePath registrations and attributes to give, and has rendered tags
C4_Witness ==
    /\ pc = "altered"
    /\ SkipExpected(doc0)
    /\ FilePatterns # <<>>
    /\ \E i \in DOMAIN plugin.val.links :
         hasSourcePath(plugin.val.links[i]) /\ isDefined(plugin.val.links[i], "attributes")
    /\ doc0.assets.css # <<>>
    /\ \E i \in DOMAIN pluginHead(doc) : pluginHead(doc)[i].tagName = "link"

(***************************************************************************)
(* What the host was told about the before-generation hook                 *)
(***************************************************************************)
BeforeOutcomes ==
    SelectSeq(hostGot, LAMBDA r : r.hook = "before" /\ r.outcome # "undefined")
ToldSuccess ==
    \E i \in DOMAIN BeforeOutcomes : BeforeOutcomes[i].outcome \in {"success", "resolved"}
ToldFailure ==
    \E i \in DOMAIN BeforeOutcomes : BeforeOutcomes[i].outcome \in {"failure", "rejected"}
AllRegistrationsSucceeded == \A i \in DOMAIN regs : regs[i].state = "fulfilled"

\* the handler of a document that is not skipped has run to its end
BeforeFinished == pc = "beforeDone" /\ ~SkipExpected(doc0)

(***************************************************************************)
(* C5: for a document that is not skipped the handler joins all of its     *)
(* registrations: the asset lists are spliced, and success is reported,    *)
(* only once every registration has succeeded; when one fails, failure is  *)
(* reported instead; the host is told exactly one outcome.                 *)
(***************************************************************************)
C5_AllOrNothingJoin ==
    /\ (AfterBefore /\ ~SkipExpected(doc0) /\ doc.assets # doc0.assets) =>
         AllRegistrationsSucceeded
    /\ BeforeFinished =>
         /\ Len(BeforeOutcomes) = 1
         /\ ToldSuccess => AllRegistrationsSucceeded
         /\ allState.state = "rejected" => ToldFailure

(***************************************************************************)
(* C6: a registration failure reaches the host by the convention of the    *)
(* call: the callback receives the error when one was passed, otherwise    *)
(* the handler's return value is a rejected outcome carrying it, and on    *)
(* success a resolved outcome carrying the document.                       *)
(***************************************************************************)
C6_FailureSurfaced ==
    BeforeFinished =>
      /\ allState.state = "rejected" =>
           \E i \in DOMAIN hostGot :
             /\ hostGot[i].hook = "before"
             /\ hostGot[i].via = (IF cb THEN "callback" ELSE "return")
             /\ hostGot[i].outcome = (IF cb THEN "failure" ELSE "rejected")
      /\ allState.state = "fulfilled" =>
           \E i \in DOMAIN hostGot :
             /\ hostGot[i].hook = "before"
             /\ hostGot[i].via = (IF cb THEN "callback" ELSE "return")
             /\ hostGot[i].outcome = (IF cb THEN "success" ELSE "resolved")

(***************************************************************************)
(* C7: at the alter-tags point of a document that is not skipped, the i-th *)
(* of the first len(linksPrepend) link tags has received the attributes of *)
(* linksPrepend[i] and the j-th of the last len(linksAppend) link tags     *)
(* those of linksAppend[j]; the same for script tags and the scripts       *)
(* buckets.  Receiving means: every declared key holds the descriptor's    *)
(* value, every other key its prior value.  All other tags are unchanged.  *)
(***************************************************************************)
DeclaredAttributes(d) == IF isDefined(d, "attributes") THEN Keys(d.attributes) ELSE {}

Received(was, is, d) ==
    /\ is.tagName = was.tagName
    /\ DOMAIN is.attributes = DOMAIN was.attributes \cup DeclaredAttributes(d)
    /\ \A k \in DeclaredAttributes(d) : is.attributes[k] = d.attributes[k]
    /\ \A k \in DOMAIN was.attributes \ DeclaredAttributes(d) :
         is.attributes[k] = was.attributes[k]

\* the position of list[i] among the tags of its own name
RankOf(list, i) == Cardinality({j \in 1..i : list[j].tagName = list[i].tagName})
CountOf(list, tagName) == Cardinality({j \in DOMAIN list : list[j].tagName = tagName})

AttributesCopied(was, is, tagName, prepend, append) ==
    /\ Len(is) = Len(was)
    /\ \A i \in DOMAIN was :
         LET r == RankOf(was, i)
             firstOfLast == CountOf(was, tagName) - Len(append)
         IN IF was[i].tagName = tagName /\ r <= Len(prepend)
            THEN Received(was[i], is[i], prepend[r])
            ELSE IF was[i].tagName = tagName /\ r > firstOfLast
            THEN Received(was[i], is[i], append[r - firstOfLast])
            ELSE is[i] = was[i]

C7_AttributeCopyBack ==
    (pc = "altered" /\ ~SkipExpected(doc0)) =>
      /\ AttributesCopied(pluginHead(doc0), pluginHead(doc), "link",
                          plugin.val.linksPrepend, plugin.val.linksAppend)
      /\ AttributesCopied(pluginBody(doc0), pluginBody(doc), "script",
                          plugin.val.scriptsPrepend, plugin.val.scriptsAppend)
      /\ doc.assets = doc0.assets
      /\ doc.outputName = doc0.outputName

\* a prepended link had an attribute of its own overwritten, an appended
\* script gained a new one, the host's own tags sit in between and a tag of
\* another kind leads the list
C7_Witness ==
    /\ pc = "altered"
    /\ ~SkipExpected(doc0)
    /\ plugin.val.linksPrepend # <<>>
    /\ plugin.val.scriptsAppend # <<>>
    /\ pluginHead(doc0)[1].tagName = "meta"
    /\ CountOf(pluginHead(doc0), "link")
         > Len(plugin.val.linksPrepend) + Len(plugin.val.linksAppend)
    /\ pluginHead(doc)[2].attributes.rel # pluginHead(doc0)[2].attributes.rel
    /\ \E i \in DOMAIN pluginBody(doc) :
         DOMAIN pluginBody(doc)[i].attributes # DOMAIN pluginBody(doc0)[i].attributes

(***************************************************************************)
(* Externals a configuration declares                                      *)
(***************************************************************************)
HasExternal(d) == isObject(d) /\ isDefined(d, "external")

WellFormedExternal(d) ==
    /\ isObject(d.external)
    /\ isStringAt(d.external, "packageName")
    /\ isStringAt(d.external, "variableName")

CssBoundExternal ==
    \/ \E i \in DOMAIN DeclaredOn("links") : HasExternal(DeclaredOn("links")[i])
    \/ \E i \in DOMAIN DeclaredOn("tags") :
         HasExternal(DeclaredOn("tags")[i]) /\ DecidedKind(DeclaredOn("tags")[i]) = "css"

\* the JS-bound descriptors that carry an external, in declaration order
JsExternals ==
    SelectSeq(SelectSeq(DeclaredOn("tags"), LAMBDA d : DecidedKind(d) = "js")
                  \o DeclaredOn("scripts"), HasExternal)

ExternalErrors ==
    {"external should be an object",
     "external should have a string packageName and variableName property",
     "external should have a string packageName property",
     "external should have a string variableName property",
     "external should not be used on non script tags"}

\* construction fails when a CSS-bound descriptor carries an external, and
\* never fails over externals when all of them are JS-bound and well formed
ExternalsAccepted ==
    /\ (pc # "new" /\ CssBoundExternal) => pc = "configError"
    /\ (pc = "configError" /\ plugin.error \in ExternalErrors) =>
         \/ CssBoundExternal
         \/ \E i \in DOMAIN JsExternals : ~WellFormedExternal(JsExternals[i])

RegistryBefore ==
    IF isDefined(compiler0, "externals") THEN compiler0.externals ELSE [k \in {} |-> <<>>]
DeclaredPackages == {JsExternals[i].external.packageName.v : i \in DOMAIN JsExternals}

RegistryKeepsOthers ==
    /\ DOMAIN compilerOptions.externals = DOMAIN RegistryBefore \cup DeclaredPackages
    /\ \A k \in DOMAIN RegistryBefore \ DeclaredPackages :
         compilerOptions.externals[k] = RegistryBefore[k]

(***************************************************************************)
(* C8 as stated: an external on a CSS-bound descriptor fails construction, *)
(* JS-bound well-formed externals are accepted, and after apply() the      *)
(* registry maps the packageName of every such descriptor to that          *)
(* descriptor's variableName, keeping the other entries it had.            *)
(***************************************************************************)
C8_EveryDescriptorMapped ==
    /\ ExternalsAccepted
    /\ pc = "applied" =>
         /\ \A i \in DOMAIN JsExternals :
              compilerOptions.externals[JsExternals[i].external.packageName.v]
                  = JsExternals[i].external.variableName.v
         /\ RegistryKeepsOthers

(***************************************************************************)
(* C8: an external on a CSS-bound descriptor fails construction, JS-bound  *)
(* well-formed externals are accepted, and after apply() the registry maps *)
(* every declared packageName to the variableName of the last JS-bound     *)
(* descriptor, in declaration order, that names that package, keeping the  *)
(* other entries it had.                                                   *)
(***************************************************************************)
C8_LastDescriptorMapped ==
    /\ ExternalsAccepted
    /\ pc = "applied" =>
         /\ \A i \in DOMAIN JsExternals :
              (\A j \in (i + 1)..Len(JsExternals) :
                 JsExternals[j].external.packageName.v # JsExternals[i].external.packageName.v)
              => compilerOptions.externals[JsExternals[i].external.packageName.v]
                     = JsExternals[i].external.variableName.v
         /\ RegistryKeepsOthers

\* two JS-bound descriptors name the same package with different variables,
\* and the registry held that package and another one before apply()
C8_Witness ==
    /\ pc = "applied"
    /\ isDefined(compiler0, "externals")
    /\ \E i, j \in DOMAIN JsExternals :
         /\ i < j
         /\ JsExternals[i].external.packageName = JsExternals[j].external.packageName
         /\ JsExternals[i].external.variableName # JsExternals[j].external.variableName
         /\ JsExternals[j].external.packageName.v \in DOMAIN RegistryBefore
         /\ compilerOptions.externals[JsExternals[j].external.packageName.v]
              # RegistryBefore[JsExternals[j].external.packageName.v]
    /\ DOMAIN RegistryBefore \ DeclaredPackages # {}

(***************************************************************************)
(* C9: each shorthand family resolves to one (enabled, transform) pair.    *)
(* The shorthand together with a fine-grained key fails construction; a    *)
(* boolean shorthand sets the flag and leaves the default transform; a     *)
(* string shorthand enables the step with a transform that joins the       *)
(* string to the path whatever the runtime value is; a function shorthand  *)
(* enables the step with that function.  With only usePublicPath false, a  *)
(* tag without a per-tag publicPath gets no public-path transform.         *)
(***************************************************************************)
SamplePaths == {s_a_js, s_up, s_win}
SampleRuntimeValues == {s_cdn, s_rel, s_empty, s_hash}

JoinedPublicPath(shorthand, path) == PathJoin(shorthand, path)
JoinedHash(shorthand, path) == path \o <<"?">> \o shorthand

FamilyResolved(keyShortcut, keyUse, keyAdd, Joined(_, _)) ==
    /\ (pc # "new" /\ isDefined(rawOptions, keyShortcut)
          /\ (isDefined(rawOptions, keyUse) \/ isDefined(rawOptions, keyAdd)))
         => pc = "configError"
    /\ (Constructed /\ isDefined(rawOptions, keyShortcut)) =>
         /\ isBoolean(rawOptions[keyShortcut]) =>
              /\ plugin.val[keyUse] = rawOptions[keyShortcut]
              /\ plugin.val[keyAdd] = DEFAULT_OPTIONS[keyAdd]
         /\ isString(rawOptions[keyShortcut]) =>
              /\ plugin.val[keyUse] = Bool(TRUE)
              /\ \A p \in SamplePaths, r \in SampleRuntimeValues :
                   CallFn(plugin.val[keyAdd], p, r) = Str(Joined(rawOptions[keyShortcut].v, p))
         /\ isFunction(rawOptions[keyShortcut]) =>
              /\ plugin.val[keyUse] = Bool(TRUE)
              /\ plugin.val[keyAdd] = rawOptions[keyShortcut]

OnlyUsePublicPathFalse ==
    /\ isDefined(rawOptions, "usePublicPath")
    /\ rawOptions.usePublicPath = Bool(FALSE)
    /\ ~isDefined(rawOptions, "addPublicPath")
    /\ ~isDefined(rawOptions, "publicPath")

NoPublicPathApplied(bucket) ==
    \A i \in DOMAIN bucket, r \in SampleRuntimeValues :
      ~isDefined(bucket[i], "publicPath") =>
        getTagPath(bucket[i], plugin.val, r, s_hash)
          = slash(HashStep(bucket[i].path.v, bucket[i], plugin.val, s_hash))

C9_ShorthandFamilies ==
    /\ FamilyResolved("publicPath", "usePublicPath", "addPublicPath", JoinedPublicPath)
    /\ FamilyResolved("hash", "useHash", "addHash", JoinedHash)
    /\ (Constructed /\ OnlyUsePublicPathFalse) =>
         /\ NoPublicPathApplied(plugin.val.links)
         /\ NoPublicPathApplied(plugin.val.scripts)

\* both families were given as strings, and the resolved public-path
\* transform gives another path than the default one does for the runtime
\* value
C9_Witness ==
    /\ pc = "constructed"
    /\ isDefined(rawOptions, "publicPath") /\ isString(rawOptions.publicPath)
    /\ isDefined(rawOptions, "hash") /\ isString(rawOptions.hash)
    /\ plugin.val.links # <<>> /\ plugin.val.scripts # <<>>
    /\ CallFn(plugin.val.addPublicPath, s_a_js, s_cdn)
         # CallFn(DEFAULT_OPTIONS.addPublicPath, s_a_js, s_cdn)

(***************************************************************************)
(* C10: a tags entry with a type goes to the kind its type names, and a    *)
(* type other than css or js fails construction; without a type it is CSS  *)
(* exactly when its path ends with the literal text of a cssExtensions     *)
(* entry, JS exactly when it ends with the literal text of a jsExtensions  *)
(* entry, and construction fails when it ends with neither.                *)
(***************************************************************************)
ConfiguredExtensions(key) == MapSeq(getExtensions(rawOptions, key).val, LAMBDA e : e.v)

EndsWithOneOf(path, extensions) ==
    \E i \in DOMAIN extensions : EndsWith(path, extensions[i])

LiteralKind(d) ==
    IF isDefined(d, "type")
    THEN (IF ~isString(d.type) THEN "error"
          ELSE IF d.type.v = ASSET_TYPE_CSS THEN "css"
          ELSE IF d.type.v = ASSET_TYPE_JS THEN "js" ELSE "error")
    ELSE IF EndsWithOneOf(d.path.v, ConfiguredExtensions("cssExtensions")) THEN "css"
    ELSE IF EndsWithOneOf(d.path.v, ConfiguredExtensions("jsExtensions")) THEN "js"
    ELSE "error"

TagsWellFormed ==
    \A i \in DOMAIN EntriesOf("tags") :
      \/ isString(EntriesOf("tags")[i])
      \/ isObject(EntriesOf("tags")[i]) /\ isStringAt(EntriesOf("tags")[i], "path")

LiteralCss ==
    MapSeq(MapSeq(SelectSeq(DeclaredOn("tags"), LAMBDA d : LiteralKind(d) = "css"), Untyped)
               \o DeclaredOn("links"), Bucketed)
LiteralJs ==
    MapSeq(MapSeq(SelectSeq(DeclaredOn("tags"), LAMBDA d : LiteralKind(d) = "js"), Untyped)
               \o DeclaredOn("scripts"), Bucketed)

C10_LiteralSuffix ==
    (pc # "new" /\ ExtensionsWellFormed /\ TagsWellFormed) =>
      IF \E i \in DOMAIN DeclaredOn("tags") : LiteralKind(DeclaredOn("tags")[i]) = "error"
      THEN pc = "configError"
      ELSE Constructed => (plugin.val.links = LiteralCss /\ plugin.val.scripts = LiteralJs)

(***************************************************************************)
(* What the tag normalizer is given                                        *)
(***************************************************************************)
Normalized == pc = "normalized"

\* an object spec whose fields other than the glob keys are well typed
ValidObjectSpec(tag) ==
    /\ isObject(tag)
    /\ isStringAt(tag, "path")
    /\ isDefined(tag, "append") => isBoolean(tag.append)
    /\ isDefined(tag, "sourcePath") => isString(tag.sourcePath)
    /\ isDefined(tag, "attributes") => isObject(tag.attributes)

HasBothGlobKeys(tag) == isStringAt(tag, "glob") /\ isStringAt(tag, "globPath")
HasNoGlobKey(tag) == ~isDefined(tag, "glob") /\ ~isDefined(tag, "globPath")
HasLoneGlobKey(tag) == isDefined(tag, "glob") # isDefined(tag, "globPath")

\* the files the glob collaborator reports, in its order
MatchesOf(tag) == GlobSync(tag.glob.v, tag.globPath.v)

\* one descriptor per match, in match order: path joined and normalized,
\* the other declared fields inherited, the two glob keys gone
ExpandedPerMatch(tag, out) ==
    IF MatchesOf(tag) = <<>> THEN ~out.ok
    ELSE /\ out.ok
         /\ Len(out.val) = Len(MatchesOf(tag))
         /\ \A i \in DOMAIN out.val :
              /\ out.val[i].path = Str(slash(PathJoin(tag.path.v, MatchesOf(tag)[i])))
              /\ DOMAIN out.val[i] = DOMAIN tag \ {"glob", "globPath"}
              /\ \A k \in DOMAIN out.val[i] \ {"path"} : out.val[i][k] = tag[k]

\* the parts that do not depend on how a lone glob key is treated
NormalizerCommon ==
    Normalized =>
      /\ isString(tagIn.tag) =>
           /\ tagOut = Ok(<<[t |-> "obj", path |-> tagIn.tag]>>)
           /\ tagOut = getTagObjects([t |-> "obj", path |-> tagIn.tag])
      /\ (ValidObjectSpec(tagIn.tag) /\ HasBothGlobKeys(tagIn.tag)) =>
           ExpandedPerMatch(tagIn.tag, tagOut)
      /\ (ValidObjectSpec(tagIn.tag) /\ HasNoGlobKey(tagIn.tag)) =>
           tagOut = Ok(<<tagIn.tag>>)
      /\ tagOut.ok => Len(tagOut.val) >= 1

(***************************************************************************)
(* C11 as stated: the normalizer expands only when both glob and globPath  *)
(* are present, then giving one descriptor per match or failing on zero    *)
(* matches; a string, and an object lacking at least one of the two keys,  *)
(* gives exactly one descriptor equal to the input; the output is never    *)
(* empty.                                                                  *)
(***************************************************************************)
C11_LoneKeyPassesThrough ==
    /\ NormalizerCommon
    /\ (Normalized /\ ValidObjectSpec(tagIn.tag) /\ HasLoneGlobKey(tagIn.tag)) =>
         tagOut = Ok(<<tagIn.tag>>)

(***************************************************************************)
(* C11: the normalizer expands when both glob and globPath are present,    *)
(* giving one descriptor per match in match order (path joined to the base *)
(* path and separator-normalized, other fields inherited, the glob keys    *)
(* removed) or failing on zero matches; an object that has only one of the *)
(* two keys fails; a string, and an object with neither key, gives exactly *)
(* one descriptor equal to the input, the string wrapped as {path}; the    *)
(* output is never empty.                                                  *)
(***************************************************************************)
C11_LoneKeyFails ==
    /\ NormalizerCommon
    /\ (Normalized /\ ValidObjectSpec(tagIn.tag) /\ HasLoneGlobKey(tagIn.tag)) =>
         ~tagOut.ok

\* a directive with fields to inherit expanded to two descriptors whose
\* base path needed separator normalization
C11_Witness ==
    /\ Normalized
    /\ ValidObjectSpec(tagIn.tag)
    /\ HasBothGlobKeys(tagIn.tag)
    /\ isDefined(tagIn.tag, "append")
    /\ tagOut.ok
    /\ Len(tagOut.val) = 2
    /\ tagOut.val[1].path # tagOut.val[2].path
    /\ tagOut.val[1].path.v # tagIn.tag.path.v \o <<"/">> \o MatchesOf(tagIn.tag)[1]

====
